---- MODULE Spec2Model ----
(***************************************************************************)
(* Reconciliation of an Exchange asset (ap_exchange_asset.py) and of an    *)
(* account environment (ap_account_environment.py) against the platform.   *)
(* One behaviour is a sequence of runs of one of the two modules with the  *)
(* same module.params against one platform resource.  Every external call  *)
(* (CLI, HTTP, build tool, file write) is one step; it either succeeds and *)
(* is applied by the platform, or fails and ends the run in fail_json.     *)
(***************************************************************************)
EXTENDS Integers, Sequences, FiniteSets, TLC

\* ------------------------------------------------------------------ bounds
\* Tags are drawn from 1..MaxTag.
MaxTag == 1
\* The output of a command evaluated on its own has at most MaxChunks chunks.
MaxChunks == 2

\* ------------------------------------------------------------- value sets
\* Python's None, for every optional string parameter and field.
None == "None"

AssetStates == {"present", "deprecated", "absent"}
AssetTypes == {"custom", "oas", "wsdl", "example", "template", "extension", "connector", "policy"}
EnvStates == {"present", "absent"}
EnvTypes == {"design", "sandbox", "production"}

\* The composite identifier of the asset the runs are about.
GroupId == "g1"
AssetId == "a1"
AssetVersion == "1.0.0"
\* An asset id the query may answer with instead (a near match).
OtherAssetId == "a2"

Names == {"n1", "n2"}
\* The name the platform shows for an asset deployed without one.
NoName == "a1"
Descriptions == {None, "d1"}
Icons == {None, "i1"}
TagSets == SUBSET (1..MaxTag)

\* File paths, as sequences of characters.
JarPath == <<"a", ".", "j", "a", "r">>
ZipPath == <<"a", ".", "z", "i", "p">>
TxtPath == <<"a", ".", "t", "x", "t">>
NoPath == <<>>
FilePaths == {NoPath, JarPath, ZipPath, TxtPath}

\* module.params['maven']: not given (None), or the dict of its suboptions.
NoMaven == [given |-> FALSE, sources |-> None]
Mavens == {NoMaven, [given |-> TRUE, sources |-> None], [given |-> TRUE, sources |-> "dir"]}

\* ---------------------------------------------------------------- state
VARIABLES
    kind,        \* which module the runs are of: "asset" or "env"
    params,      \* module.params of the asset module
    eparams,     \* module.params of the environment module
    asset,       \* the platform's record of the asset
    env,         \* the platform's record of the environment
    pc,          \* position of the current run
    check_mode,  \* module.check_mode of the current run
    context,     \* get_context's return value (asset module)
    econtext,    \* get_context's return value (environment module)
    todo,        \* the calls run_module still has to make, in program order
    calls,       \* the external calls the current run has issued, in order
    files,       \* local files the current run has written
    output,      \* run_module's local `output`
    result,      \* what the run handed to exit_json / fail_json
    prev_ok,     \* the last run outside check mode ended in success
    probe        \* one evaluation of a function on its own: name, arguments, return value

vars == <<kind, params, eparams, asset, env, pc, check_mode, context, econtext,
          todo, calls, files, output, result, prev_ok, probe>>

\* ------------------------------------------------------- pure functions

\* os.path.splitext(path)[1]: the text from the last dot on, empty when there is
\* no dot or only leading dots.
Dots(path) == {i \in 1..Len(path) : path[i] = "."}
LastDot(path) == IF Dots(path) = {} THEN 0 ELSE CHOOSE i \in Dots(path) : \A j \in Dots(path) : j <= i
SplitExt(path) ==
    IF LastDot(path) = 0 \/ (\A i \in 1..LastDot(path) : path[i] = ".")
    THEN <<>>
    ELSE SubSeq(path, LastDot(path), Len(path))

JarExt == <<".", "j", "a", "r">>
ZipExt == <<".", "z", "i", "p">>

\* A slip: a policy is deployed as a plugin.
Classifier_PolicyAsPlugin(type, file_extension) ==
    IF type = "connector" /\ file_extension = ZipExt THEN "studio-plugin"
    ELSE IF type \in {"extension", "policy"} /\ file_extension = JarExt THEN "mule-plugin"
    ELSE IF type = "example" /\ file_extension = JarExt THEN "mule-application-example"
    ELSE IF type = "template" /\ file_extension = JarExt THEN "mule-application-template"
    ELSE None

\* The -Dclassifier of deploy:deploy-file, None where the code calls fail_json.
Classifier(type, file_extension) ==
    IF type = "connector" /\ file_extension = ZipExt THEN "studio-plugin"
    ELSE IF type = "extension" /\ file_extension = JarExt THEN "mule-plugin"
    ELSE IF type = "policy" /\ file_extension = JarExt THEN "mule-policy"
    ELSE IF type = "example" /\ file_extension = JarExt THEN "mule-application-example"
    ELSE IF type = "template" /\ file_extension = JarExt THEN "mule-application-template"
    ELSE None

\* The platform has no asset under the composite identifier.
AbsentAsset ==
    [exists |-> FALSE, type |-> None, name |-> None, description |-> None,
     icon |-> None, tags |-> {}, deprecated |-> FALSE]

\* An asset as a create call leaves it: the commands carry the type and at most the
\* name, never the description, the icon or the tags.
CreatedAsset(type, name) ==
    [exists |-> TRUE, type |-> type, name |-> name, description |-> None,
     icon |-> None, tags |-> {}, deprecated |-> FALSE]

\* The answers of the asset query: an errors array whose entries have a status, or
\* a data payload with its list of assets.
ErrorOutput(status) == [errors |-> <<[status |-> status]>>, assets |-> <<>>]
DataOutput(assetId, type) ==
    [errors |-> <<>>,
     assets |-> <<[groupId |-> GroupId, assetId |-> assetId, version |-> AssetVersion, type |-> type]>>]
\* A data payload that lists no asset.
EmptyOutput == [errors |-> <<>>, assets |-> <<>>]

\* What the query may answer for platform record a: the record itself when it
\* exists; a 404, an empty list or a near match when it does not; any other error
\* at any time.
QueryOutputs(a, p) ==
    (IF a.exists
     THEN {DataOutput(AssetId, a.type)}
     ELSE {ErrorOutput(404), EmptyOutput, DataOutput(OtherAssetId, p.type)})
    \cup {ErrorOutput(500)}

Fail == "fail_json"
\* The exception of a list index out of range, which nothing catches.
IndexError == "IndexError"

\* look_asset_on_exchange: the asset id when found, None when not, Fail when the
\* run ends in fail_json, IndexError when assets[0] does not exist.
LookAssetOnExchange(p, out) ==
    IF out.errors # <<>>
    THEN IF out.errors[1].status # 404 THEN Fail ELSE None
    ELSE IF out.assets = <<>>
         THEN IndexError
         ELSE LET item == out.assets[1]
              IN  IF /\ p.asset_id = item.assetId
                     /\ p.group_id = item.groupId
                     /\ p.asset_version = item.version
                     /\ p.type = item.type
                  THEN item.assetId
                  ELSE None

\* ap_exchange_common.analyze_asset: one flag per mutable field, set when the
\* desired value differs from the observed one, and the deprecated sub-state.
AnalyzeAsset(p, a) ==
    [must_update_name |-> p.name # a.name,
     must_update_description |-> p.description # a.description,
     must_update_icon |-> p.icon # a.icon,
     must_update_tags |-> p.tags # a.tags,
     must_update |-> \/ p.name # a.name
                     \/ p.description # a.description
                     \/ p.icon # a.icon
                     \/ p.tags # a.tags,
     deprecated |-> a.deprecated]

NoAnalysis ==
    [must_update_name |-> FALSE, must_update_description |-> FALSE,
     must_update_icon |-> FALSE, must_update_tags |-> FALSE,
     must_update |-> FALSE, deprecated |-> FALSE]

\* The return value get_context starts from.
InitialContext ==
    [do_nothing |-> FALSE, exists |-> FALSE, exchange_must_update |-> FALSE,
     exchange_must_update_name |-> FALSE, exchange_must_update_icon |-> FALSE,
     exchange_must_update_description |-> FALSE, exchange_must_update_tags |-> FALSE,
     deprecated |-> FALSE]

\* A slip: target present forgets the deprecated sub-state.
DoNothing_IgnoresDeprecated(state, exists, must_update, deprecated) ==
    IF state \in {"present", "deprecated"}
    THEN IF exists
         THEN IF state = "present" THEN must_update = FALSE ELSE deprecated = TRUE
         ELSE FALSE
    ELSE ~exists

\* A slip: target deprecated also asks for the metadata to be up to date.
DoNothing_DeprecatedDiffs(state, exists, must_update, deprecated) ==
    IF state \in {"present", "deprecated"}
    THEN IF exists
         THEN IF state = "present"
              THEN (must_update = FALSE /\ deprecated = FALSE)
              ELSE (must_update = FALSE /\ deprecated = TRUE)
         ELSE FALSE
    ELSE ~exists

\* do_nothing as get_context of the asset module decides it.
DoNothing(state, exists, must_update, deprecated) ==
    IF state \in {"present", "deprecated"}
    THEN IF exists
         THEN IF state = "present"
              THEN (must_update = FALSE /\ deprecated = FALSE)
              ELSE (deprecated = TRUE)
         ELSE FALSE
    ELSE ~exists

\* get_context of the asset module, given what the lookup and analyze_asset returned.
GetContext(p, exists, analysis) ==
    LET analysed == p.state \in {"present", "deprecated"} /\ exists
        r == IF analysed THEN analysis ELSE NoAnalysis
    IN  [do_nothing |-> DoNothing(p.state, exists, r.must_update, r.deprecated),
         exists |-> exists,
         exchange_must_update |-> r.must_update,
         exchange_must_update_name |-> r.must_update_name,
         exchange_must_update_icon |-> r.must_update_icon,
         exchange_must_update_description |-> r.must_update_description,
         exchange_must_update_tags |-> r.must_update_tags,
         deprecated |-> r.deprecated]

\* ap_exchange_common.modify_exchange_asset as the platform applies it: each field
\* whose flag is set in the context takes the desired value.
ModifiedAsset(a, p, ctx) ==
    [a EXCEPT !.name = IF ctx.exchange_must_update_name THEN p.name ELSE @,
              !.description = IF ctx.exchange_must_update_description THEN p.description ELSE @,
              !.icon = IF ctx.exchange_must_update_icon THEN p.icon ELSE @,
              !.tags = IF ctx.exchange_must_update_tags THEN p.tags ELSE @]

\* A slip: the closing modify_exchange_asset is left out for the CLI upload.
UploadSteps_NoModify(p) ==
    IF p.type \in {"custom", "oas", "wsdl"}
    THEN <<"upload">>
    ELSE <<"settings_xml", "mvn_deploy_file", "set_asset_name", "modify">>

\* The calls of upload_exchange_asset, in program order, ending at the first
\* fail_json or uncaught exception.
UploadSteps(p) ==
    IF p.type \in {"custom", "oas", "wsdl"}
    THEN <<"upload", "modify">>
    ELSE IF p.type \in {"example", "template"} /\ p.file_path = NoPath
         THEN IF ~p.maven.given
              THEN <<"crash">>
              ELSE IF p.maven.sources # None
                   THEN <<"settings_xml", "modify_pom", "mvn_deploy", "modify">>
                   ELSE <<"fail_sources">>
         ELSE <<"settings_xml">> \o
              (IF p.file_path = NoPath
               THEN <<"crash">>
               ELSE IF Classifier(p.type, SplitExt(p.file_path)) = None
                    THEN <<"fail_extension">>
                    ELSE <<"mvn_deploy_file", "set_asset_name", "modify">>)

\* A slip: the deprecate call comes first.
Plan_DeprecateFirst(p, ctx) ==
    IF p.state = "present"
    THEN IF ~ctx.exists
         THEN UploadSteps(p)
         ELSE (IF ctx.deprecated THEN <<"undeprecate">> ELSE <<>>) \o
              (IF ctx.exchange_must_update THEN <<"modify">> ELSE <<>>)
    ELSE IF p.state = "deprecated"
         THEN <<"deprecate">> \o
              (IF ~ctx.exists THEN UploadSteps(p) ELSE <<>>) \o
              (IF ctx.exchange_must_update THEN <<"modify">> ELSE <<>>)
         ELSE <<"delete">>

\* A slip: target present never undeprecates.
Plan_NoUndeprecate(p, ctx) ==
    IF p.state = "present"
    THEN IF ~ctx.exists
         THEN UploadSteps(p)
         ELSE (IF ctx.exchange_must_update THEN <<"modify">> ELSE <<>>)
    ELSE IF p.state = "deprecated"
         THEN (IF ~ctx.exists THEN UploadSteps(p) ELSE <<>>) \o
              (IF ctx.exchange_must_update THEN <<"modify">> ELSE <<>>) \o
              <<"deprecate">>
         ELSE <<"delete">>

\* A slip: target absent deprecates before it deletes.
Plan_DeprecateThenDelete(p, ctx) ==
    IF p.state = "present"
    THEN IF ~ctx.exists
         THEN UploadSteps(p)
         ELSE (IF ctx.deprecated THEN <<"undeprecate">> ELSE <<>>) \o
              (IF ctx.exchange_must_update THEN <<"modify">> ELSE <<>>)
    ELSE IF p.state = "deprecated"
         THEN (IF ~ctx.exists THEN UploadSteps(p) ELSE <<>>) \o
              (IF ctx.exchange_must_update THEN <<"modify">> ELSE <<>>) \o
              <<"deprecate">>
         ELSE <<"deprecate", "delete">>

\* A slip: target deprecated forgets the deprecate call.
Plan_NoDeprecate(p, ctx) ==
    IF p.state = "present"
    THEN IF ~ctx.exists
         THEN UploadSteps(p)
         ELSE (IF ctx.deprecated THEN <<"undeprecate">> ELSE <<>>) \o
              (IF ctx.exchange_must_update THEN <<"modify">> ELSE <<>>)
    ELSE IF p.state = "deprecated"
         THEN (IF ~ctx.exists THEN UploadSteps(p) ELSE <<>>) \o
              (IF ctx.exchange_must_update THEN <<"modify">> ELSE <<>>)
         ELSE <<"delete">>

\* The calls run_module makes once the context says there is something to do.
Plan(p, ctx) ==
    IF p.state = "present"
    THEN IF ~ctx.exists
         THEN UploadSteps(p)
         ELSE (IF ctx.deprecated THEN <<"undeprecate">> ELSE <<>>) \o
              (IF ctx.exchange_must_update THEN <<"modify">> ELSE <<>>)
    ELSE IF p.state = "deprecated"
         THEN (IF ~ctx.exists THEN UploadSteps(p) ELSE <<>>) \o
              (IF ctx.exchange_must_update THEN <<"modify">> ELSE <<>>) \o
              <<"deprecate">>
         ELSE <<"delete">>

\* A slip: the test is inverted.
AssetExits_Inverted(ctx) == ctx.do_nothing = FALSE

\* run_module's test of the context: exit_json with the untouched result.
AssetExits(ctx) == ctx.do_nothing = TRUE

\* The parameter validation of run_module: the fail_json message, None when the
\* parameters pass.  maven_spec has no project_dir key, so the get is always None.
ValidateParams(p) ==
    IF /\ p.state = "present"
       /\ p.type \in {"example", "template"}
       /\ ~p.maven.given
    THEN "asset type template or example requires a project directory to build it"
    ELSE IF /\ p.state = "present"
            /\ p.type \in {"oas", "wsdl", "connector", "extension", "policy"}
            /\ p.file_path = NoPath
         THEN "[run_module] asset type oas, wsdl, connector, extension or policy requires a file path to upload it"
         ELSE None

\* ------------------------------------------------ environment functions

AbsentEnv ==
    [exists |-> FALSE, type |-> None, id |-> None, client_id |-> None, client_secret |-> None]

\* The environment as the platform creates it, with its identifiers and client secret.
CreatedEnv(type) ==
    [exists |-> TRUE, type |-> type, id |-> "e1", client_id |-> "c1", client_secret |-> "s1"]

\* run_command's (exit code, output) for describe; the output is a sequence of
\* chunks of text, "\n" a chunk of its own.
ErrorMessage == <<"Error: Environment not found">>
DescribeOk(e) == [rc |-> 0, out |-> <<"json">>, ID |-> e.id, ClientID |-> e.client_id]
DescribeError(rc, out) == [rc |-> rc, out |-> out, ID |-> None, ClientID |-> None]

\* What describe may answer for platform record e.
DescribeResults(e) ==
    (IF e.exists
     THEN {DescribeOk(e)}
     ELSE {DescribeError(255, ErrorMessage \o <<"\n">>)})
    \cup {DescribeError(1, <<"Error: Unauthorized", "\n">>),
          DescribeError(255, <<"Error: Unauthorized", "\n">>)}

\* str.replace('\n', '')
RemoveNewlines(out) == SelectSeq(out, LAMBDA c : c # "\n")

\* json.loads takes one JSON document, whatever the line breaks around it, and
\* raises ValueError on any other text.
ParsesAsJson(out) == RemoveNewlines(out) = <<"json">>
ValueError == "ValueError"

\* A slip: the message alone decides, whatever the exit code.
GetEnvironment_AnyExitCode(r) ==
    IF r.rc = 0
    THEN IF ParsesAsJson(r.out)
         THEN [kind |-> "record", ID |-> r.ID, ClientID |-> r.ClientID]
         ELSE [kind |-> ValueError, ID |-> None, ClientID |-> None]
    ELSE IF RemoveNewlines(r.out) = ErrorMessage
         THEN [kind |-> "empty", ID |-> None, ClientID |-> None]
         ELSE [kind |-> Fail, ID |-> None, ClientID |-> None]

\* get_environment: the parsed record, the empty dict, or the end of the run in
\* fail_json or in the exception of json.loads.
GetEnvironment(r) ==
    IF r.rc = 0
    THEN IF ParsesAsJson(r.out)
         THEN [kind |-> "record", ID |-> r.ID, ClientID |-> r.ClientID]
         ELSE [kind |-> ValueError, ID |-> None, ClientID |-> None]
    ELSE IF r.rc = 255 /\ RemoveNewlines(r.out) = ErrorMessage
         THEN [kind |-> "empty", ID |-> None, ClientID |-> None]
         ELSE [kind |-> Fail, ID |-> None, ClientID |-> None]

\* A slip: target absent does nothing when the environment is there.
EnvDoNothing_AbsentFlipped(p, id) ==
    IF p.state = "absent"
    THEN id # None
    ELSE IF id = None THEN FALSE ELSE TRUE

\* do_nothing as get_context of the environment module decides it from the id the
\* describe call gave (None when the environment was not found).
EnvDoNothing(p, id) ==
    IF p.state = "absent"
    THEN id = None
    ELSE IF id = None THEN FALSE ELSE TRUE

\* run_module's test of the context: exit_json with the identifiers found.
EnvExits(ctx) == ctx.do_nothing = TRUE

\* A slip: the identifiers are not queried again after the create.
CreateEnvironmentSteps_NoRequery == <<"create", "org_lookup", "secret_fetch">>

\* The calls of create_environment, in program order.
CreateEnvironmentSteps == <<"create", "describe", "org_lookup", "secret_fetch">>

\* A slip: the delete path reads the client secret too.
DeleteEnvironmentSteps_FetchesSecret == <<"delete", "secret_fetch">>

\* The calls of delete_environment.
DeleteEnvironmentSteps == <<"delete">>

\* The action run_module takes for the target state.
EnvPlan(p) == IF p.state = "present" THEN CreateEnvironmentSteps ELSE DeleteEnvironmentSteps

InitialEContext ==
    [do_nothing |-> FALSE, id |-> None, client_id |-> None, client_secret |-> None]

\* ------------------------------------------------------------- results

\* The result dict run_module starts from.
InitialResult ==
    [failed |-> FALSE, changed |-> FALSE, msg |-> "No action taken",
     id |-> None, client_id |-> None, client_secret |-> None]

\* What module.fail_json (or an uncaught exception) reports.
Failure(msg) ==
    [failed |-> TRUE, changed |-> FALSE, msg |-> msg,
     id |-> None, client_id |-> None, client_secret |-> None]

NoOutput == [msg |-> None, id |-> None, client_id |-> None, client_secret |-> None]

Call(op, file) == [op |-> op, file |-> file]

\* Whether, when the next run starts, the last run outside check mode ended in
\* success (a run in check mode touches nothing).
Outcome ==
    IF pc = "idle" THEN FALSE
    ELSE IF result.failed THEN FALSE
    ELSE IF check_mode THEN prev_ok
    ELSE TRUE

\* No function is evaluated on its own.
NoProbe == [fn |-> None, arg |-> None, ret |-> None, returned |-> FALSE]

\* -------------------------------------------------------- initial state

OtherType(t) == IF t = "custom" THEN "oas" ELSE "custom"

\* The file paths and maven options tried with each type: maven is read for
\* example and template only.
FilePathsOf(type) == IF type \in {"custom", "oas", "wsdl"} THEN {NoPath, ZipPath} ELSE FilePaths
MavensOf(type) == IF type \in {"example", "template"} THEN Mavens ELSE {NoMaven}

ParamsOf(state, type) ==
    [state : {state}, type : {type}, name : {"n1"}, description : Descriptions,
     icon : {None}, tags : TagSets, file_path : FilePathsOf(type), maven : MavensOf(type),
     group_id : {GroupId}, asset_id : {AssetId}, asset_version : {AssetVersion}]

AssetParams == UNION {ParamsOf(s, t) : s \in AssetStates, t \in AssetTypes}

DefaultParams ==
    [state |-> "absent", type |-> "custom", name |-> "n1", description |-> None,
     icon |-> None, tags |-> {}, file_path |-> NoPath, maven |-> NoMaven,
     group_id |-> GroupId, asset_id |-> AssetId, asset_version |-> AssetVersion]

\* The platform states a run may meet: no asset; one of the declared type, active
\* or deprecated, with any metadata; one of another type under the same identifier.
InitialAssets(p) ==
    {AbsentAsset} \cup
    [exists : {TRUE}, type : {p.type}, name : Names,
     description : Descriptions, icon : Icons, tags : TagSets, deprecated : BOOLEAN] \cup
    [exists : {TRUE}, type : {OtherType(p.type)}, name : {p.name},
     description : {p.description}, icon : {p.icon}, tags : {p.tags}, deprecated : BOOLEAN]

EnvParams == [state : EnvStates, type : EnvTypes, name : {"n1"}]
DefaultEParams == [state |-> "absent", type |-> "production", name |-> "n1"]
InitialEnvs == {AbsentEnv} \cup {CreatedEnv(t) : t \in EnvTypes}

Init ==
    /\ kind \in {"asset", "env"}
    /\ IF kind = "asset"
       THEN /\ params \in AssetParams
            /\ asset \in InitialAssets(params)
            /\ eparams = DefaultEParams
            /\ env = AbsentEnv
       ELSE /\ params = DefaultParams
            /\ asset = AbsentAsset
            /\ eparams \in EnvParams
            /\ env \in InitialEnvs
    /\ pc = "idle"
    /\ check_mode = FALSE
    /\ context = InitialContext
    /\ econtext = InitialEContext
    /\ todo = <<>>
    /\ calls = <<>>
    /\ files = {}
    /\ output = NoOutput
    /\ result = InitialResult
    /\ prev_ok = FALSE
    /\ probe = NoProbe

\* ------------------------------------------------------------- actions

\* exit_json / fail_json: the run is over.
EndRun(res) ==
    /\ pc' = "done"
    /\ result' = res
    /\ todo' = <<>>

\* A new run starts: everything of the previous one but the platform is gone.
StartRun(cm) ==
    /\ pc \in {"idle", "done"}
    /\ prev_ok' = Outcome
    /\ check_mode' = cm
    /\ calls' = <<>>
    /\ files' = {}
    /\ context' = InitialContext
    /\ econtext' = InitialEContext
    /\ output' = NoOutput
    /\ UNCHANGED <<kind, params, eparams, asset, env, probe>>

\* A slip: check mode is not looked at.
AssetBegin_IgnoresCheckMode ==
    /\ kind = "asset"
    /\ \E cm \in BOOLEAN, binaries \in BOOLEAN :
        /\ StartRun(cm)
        /\ IF ~binaries
           THEN EndRun(Failure("binary not present on host"))
           ELSE IF ValidateParams(params) # None
                THEN EndRun(Failure(ValidateParams(params)))
                ELSE /\ pc' = "get_context"
                     /\ result' = InitialResult
                     /\ todo' = <<>>

\* run_module of the asset module up to get_context: the binaries, check mode,
\* the validation of the parameters.
AssetBegin ==
    /\ kind = "asset"
    /\ \E cm \in BOOLEAN, binaries \in BOOLEAN :
        /\ StartRun(cm)
        /\ IF ~binaries
           THEN EndRun(Failure("binary not present on host"))
           ELSE IF cm
                THEN EndRun(InitialResult)
                ELSE IF ValidateParams(params) # None
                     THEN EndRun(Failure(ValidateParams(params)))
                     ELSE /\ pc' = "get_context"
                          /\ result' = InitialResult
                          /\ todo' = <<>>

\* get_context, and run_module's exit when there is nothing to do.
AssetGetContext ==
    /\ kind = "asset"
    /\ pc = "get_context"
    /\ \E out \in QueryOutputs(asset, params), ok \in BOOLEAN :
        LET found == LookAssetOnExchange(params, out)
            exists == found \notin {None, Fail, IndexError}
            analysed == params.state \in {"present", "deprecated"} /\ exists
            ctx == GetContext(params, exists, AnalyzeAsset(params, asset))
        IN  IF found = Fail
            THEN /\ calls' = <<Call("query", FALSE)>>
                 /\ EndRun(Failure("[look_asset_on_exchange] Error looking for asset on exchange"))
                 /\ UNCHANGED context
            ELSE IF found = IndexError
            THEN /\ calls' = <<Call("query", FALSE)>>
                 /\ EndRun(Failure(IndexError))
                 /\ UNCHANGED context
            ELSE IF analysed /\ ~ok
                 THEN /\ calls' = <<Call("query", FALSE), Call("analyze", FALSE)>>
                      /\ EndRun(Failure("analyze_asset"))
                      /\ UNCHANGED context
                 ELSE /\ calls' = <<Call("query", FALSE)>> \o
                                  (IF analysed THEN <<Call("analyze", FALSE)>> ELSE <<>>)
                      /\ context' = ctx
                      /\ IF AssetExits(ctx)
                         THEN EndRun(result)
                         ELSE /\ pc' = "exec"
                              /\ todo' = Plan(params, ctx)
                              /\ UNCHANGED result
    /\ UNCHANGED <<kind, params, eparams, asset, env, check_mode, econtext, files, output, prev_ok, probe>>

\* One call of the executor: issued, and then applied by the platform or failed.
Step(op, file, ok, newAsset, out) ==
    /\ pc = "exec"
    /\ todo # <<>>
    /\ Head(todo) = op
    /\ calls' = Append(calls, Call(op, file))
    /\ IF ok
       THEN /\ asset' = newAsset
            /\ output' = [output EXCEPT !.msg = out]
            /\ todo' = Tail(todo)
            /\ UNCHANGED <<pc, result>>
       ELSE /\ EndRun(Failure(op))
            /\ UNCHANGED <<asset, output>>
    /\ UNCHANGED <<kind, params, eparams, env, check_mode, context, econtext, prev_ok, probe>>

\* The platform holds one asset per composite identifier: a create succeeds only
\* when there is none.
CreateOk == IF asset.exists THEN {FALSE} ELSE BOOLEAN

\* anypoint-cli exchange asset upload.
AssetUpload ==
    /\ kind = "asset"
    /\ \E ok \in CreateOk :
        Step("upload", params.file_path # NoPath, ok,
             CreatedAsset(params.type, params.name), "upload output")
    /\ UNCHANGED files

\* create_settings_xml.
CreateSettingsXml ==
    /\ kind = "asset"
    /\ \E ok \in BOOLEAN :
        /\ Step("settings_xml", FALSE, ok, asset, output.msg)
        /\ files' = IF ok THEN files \cup {"settings.xml"} ELSE files

\* modify_pom_file.
ModifyPomFile ==
    /\ kind = "asset"
    /\ \E ok \in BOOLEAN :
        /\ Step("modify_pom", FALSE, ok, asset, output.msg)
        /\ files' = IF ok THEN files \cup {"pom.xml"} ELSE files

\* mvn clean deploy of the sources; the rewritten pom carries the name.
MavenDeploy ==
    /\ kind = "asset"
    /\ \E ok \in CreateOk :
        Step("mvn_deploy", FALSE, ok, CreatedAsset(params.type, params.name), output.msg)
    /\ UNCHANGED files

\* mvn deploy:deploy-file; the command carries no name.
MavenDeployFile ==
    /\ kind = "asset"
    /\ \E ok \in CreateOk :
        Step("mvn_deploy_file", TRUE, ok, CreatedAsset(params.type, NoName), output.msg)
    /\ UNCHANGED files

\* ap_exchange_common.set_asset_name.
SetAssetName ==
    /\ kind = "asset"
    /\ \E ok \in BOOLEAN :
        Step("set_asset_name", FALSE, ok, [asset EXCEPT !.name = params.name], output.msg)
    /\ UNCHANGED files

\* ap_exchange_common.modify_exchange_asset, called with the context; the call
\* that ends upload_exchange_asset leaves its 'Asset uploaded' in output.
ModifyExchangeAsset ==
    /\ kind = "asset"
    /\ \E ok \in BOOLEAN :
        Step("modify", FALSE, ok, ModifiedAsset(asset, params, context),
             IF context.exists THEN "modify output" ELSE "Asset uploaded")
    /\ UNCHANGED files

\* anypoint-cli exchange asset undeprecate.
Undeprecate ==
    /\ kind = "asset"
    /\ \E ok \in BOOLEAN :
        Step("undeprecate", FALSE, ok, [asset EXCEPT !.deprecated = FALSE], "undeprecate output")
    /\ UNCHANGED files

\* anypoint-cli exchange asset deprecate.
Deprecate ==
    /\ kind = "asset"
    /\ \E ok \in BOOLEAN :
        Step("deprecate", FALSE, ok, [asset EXCEPT !.deprecated = TRUE], "deprecate output")
    /\ UNCHANGED files

\* ap_exchange_common.delete_exchange_asset.
DeleteExchangeAsset ==
    /\ kind = "asset"
    /\ \E ok \in BOOLEAN :
        Step("delete", FALSE, ok, AbsentAsset, "delete output")
    /\ UNCHANGED files

\* module.fail_json inside upload_exchange_asset: neither sources nor a file, or an
\* extension the type does not take.
UploadFailJson ==
    /\ kind = "asset"
    /\ pc = "exec"
    /\ todo # <<>>
    /\ Head(todo) \in {"fail_sources", "fail_extension"}
    /\ EndRun(Failure(Head(todo)))
    /\ UNCHANGED <<kind, params, eparams, asset, env, check_mode, context, econtext,
                   calls, files, output, prev_ok, probe>>

\* An uncaught TypeError inside upload_exchange_asset: maven or file_path is None
\* where the code reads it.
UploadCrash ==
    /\ kind = "asset"
    /\ pc = "exec"
    /\ todo # <<>>
    /\ Head(todo) = "crash"
    /\ EndRun(Failure("TypeError"))
    /\ UNCHANGED <<kind, params, eparams, asset, env, check_mode, context, econtext,
                   calls, files, output, prev_ok, probe>>

\* The end of run_module: changed, with the last output as msg.
AssetFinish ==
    /\ kind = "asset"
    /\ pc = "exec"
    /\ todo = <<>>
    /\ EndRun([result EXCEPT !.msg = output.msg, !.changed = TRUE])
    /\ UNCHANGED <<kind, params, eparams, asset, env, check_mode, context, econtext,
                   calls, files, output, prev_ok, probe>>

AssetNext ==
    \/ AssetBegin
    \/ AssetGetContext
    \/ AssetUpload
    \/ CreateSettingsXml
    \/ ModifyPomFile
    \/ MavenDeploy
    \/ MavenDeployFile
    \/ SetAssetName
    \/ ModifyExchangeAsset
    \/ Undeprecate
    \/ Deprecate
    \/ DeleteExchangeAsset
    \/ UploadFailJson
    \/ UploadCrash
    \/ AssetFinish

\* run_module of the environment module up to get_context: the binary, check mode.
EnvBegin ==
    /\ kind = "env"
    /\ \E cm \in BOOLEAN, binaries \in BOOLEAN :
        /\ StartRun(cm)
        /\ IF ~binaries
           THEN EndRun(Failure("anypoint-cli binary not present on host"))
           ELSE IF cm
                THEN EndRun(InitialResult)
                ELSE /\ pc' = "get_context"
                     /\ result' = InitialResult
                     /\ todo' = <<>>

\* The describe call of get_context and what get_context decides from it: the
\* exit when target absent finds nothing, the secret fetch when target present
\* finds the environment, the create or the delete otherwise.
EnvGetContext ==
    /\ kind = "env"
    /\ pc = "get_context"
    /\ calls' = <<Call("describe", FALSE)>>
    /\ \E r \in DescribeResults(env) :
        LET resp_json == GetEnvironment(r)
            found == [econtext EXCEPT !.id = resp_json.ID, !.client_id = resp_json.ClientID]
            ctx == [found EXCEPT !.do_nothing = EnvDoNothing(eparams, found.id)]
            res == [result EXCEPT !.id = ctx.id, !.client_id = ctx.client_id]
        IN  IF resp_json.kind \in {Fail, ValueError}
            THEN /\ EndRun(Failure("describe"))
                 /\ UNCHANGED econtext
            ELSE IF eparams.state = "present" /\ ctx.do_nothing
                 THEN \* the secret is fetched before get_context returns
                      /\ econtext' = found
                      /\ pc' = "context"
                      /\ todo' = <<"org_lookup", "secret_fetch">>
                      /\ UNCHANGED result
                 ELSE /\ econtext' = ctx
                      /\ IF EnvExits(ctx)
                         THEN EndRun(res)
                         ELSE /\ pc' = "exec"
                              /\ todo' = EnvPlan(eparams)
                              /\ result' = res
    /\ UNCHANGED <<kind, params, eparams, asset, env, check_mode, context, files, output, prev_ok, probe>>

\* get_org_id: the profile call and the search of the organization in it.
GetOrgId ==
    /\ kind = "env"
    /\ pc \in {"context", "exec"}
    /\ todo # <<>>
    /\ Head(todo) = "org_lookup"
    /\ calls' = Append(calls, Call("org_lookup", FALSE))
    /\ \E ok \in BOOLEAN :
        IF ok
        THEN /\ todo' = Tail(todo)
             /\ UNCHANGED <<pc, result>>
        ELSE EndRun(Failure("org_lookup"))
    /\ UNCHANGED <<kind, params, eparams, asset, env, check_mode, context, econtext,
                   files, output, prev_ok, probe>>

\* get_env_client_secret.  In get_context it completes the context, which says
\* do_nothing, and run_module exits; in create_environment it completes the output.
GetEnvClientSecret ==
    /\ kind = "env"
    /\ pc \in {"context", "exec"}
    /\ todo # <<>>
    /\ Head(todo) = "secret_fetch"
    /\ calls' = Append(calls, Call("secret_fetch", FALSE))
    /\ \E ok \in BOOLEAN :
        IF ~ok
        THEN /\ EndRun(Failure("secret_fetch"))
             /\ UNCHANGED <<econtext, output>>
        ELSE IF pc = "context"
             THEN LET ctx == [econtext EXCEPT !.client_secret = env.client_secret,
                                              !.do_nothing = TRUE]
                      res == [result EXCEPT !.id = ctx.id,
                                            !.client_id = ctx.client_id,
                                            !.client_secret = ctx.client_secret]
                  IN  /\ econtext' = ctx
                      /\ IF EnvExits(ctx)
                         THEN EndRun(res)
                         ELSE /\ pc' = "exec"
                              /\ todo' = EnvPlan(eparams)
                              /\ result' = res
                      /\ UNCHANGED output
             ELSE /\ output' = [output EXCEPT !.client_secret = env.client_secret,
                                              !.msg = "environment created"]
                  /\ todo' = Tail(todo)
                  /\ UNCHANGED <<pc, result, econtext>>
    /\ UNCHANGED <<kind, params, eparams, asset, env, check_mode, context, files, prev_ok, probe>>

\* The create call of create_environment.
EnvCreate ==
    /\ kind = "env"
    /\ pc = "exec"
    /\ todo # <<>>
    /\ Head(todo) = "create"
    /\ calls' = Append(calls, Call("create", FALSE))
    /\ \E ok \in (IF env.exists THEN {FALSE} ELSE BOOLEAN) :
        IF ok
        THEN /\ env' = CreatedEnv(eparams.type)
             /\ todo' = Tail(todo)
             /\ UNCHANGED <<pc, result>>
        ELSE /\ EndRun(Failure("create"))
             /\ UNCHANGED env
    /\ UNCHANGED <<kind, params, eparams, asset, check_mode, context, econtext,
                   files, output, prev_ok, probe>>

\* The describe call of create_environment; the empty dict of a not-found answer
\* has no 'ID' key.
EnvRequery ==
    /\ kind = "env"
    /\ pc = "exec"
    /\ todo # <<>>
    /\ Head(todo) = "describe"
    /\ calls' = Append(calls, Call("describe", FALSE))
    /\ \E r \in DescribeResults(env) :
        LET resp_json == GetEnvironment(r)
        IN  IF resp_json.kind \in {Fail, ValueError}
            THEN /\ EndRun(Failure("describe"))
                 /\ UNCHANGED output
            ELSE IF resp_json.kind = "empty"
                 THEN /\ EndRun(Failure("KeyError"))
                      /\ UNCHANGED output
                 ELSE /\ output' = [output EXCEPT !.id = resp_json.ID,
                                                  !.client_id = resp_json.ClientID]
                      /\ todo' = Tail(todo)
                      /\ UNCHANGED <<pc, result>>
    /\ UNCHANGED <<kind, params, eparams, asset, env, check_mode, context, econtext,
                   files, prev_ok, probe>>

\* delete_environment.
EnvDelete ==
    /\ kind = "env"
    /\ pc = "exec"
    /\ todo # <<>>
    /\ Head(todo) = "delete"
    /\ calls' = Append(calls, Call("delete", FALSE))
    /\ \E ok \in BOOLEAN :
        IF ok
        THEN /\ env' = AbsentEnv
             /\ output' = [NoOutput EXCEPT !.msg = "environment deleted"]
             /\ todo' = Tail(todo)
             /\ UNCHANGED <<pc, result>>
        ELSE /\ EndRun(Failure("delete"))
             /\ UNCHANGED <<env, output>>
    /\ UNCHANGED <<kind, params, eparams, asset, check_mode, context, econtext,
                   files, prev_ok, probe>>

\* The end of run_module: changed, with what the action returned.
EnvFinish ==
    /\ kind = "env"
    /\ pc = "exec"
    /\ todo = <<>>
    /\ EndRun([failed |-> FALSE, changed |-> TRUE, msg |-> output.msg, id |-> output.id,
               client_id |-> output.client_id, client_secret |-> output.client_secret])
    /\ UNCHANGED <<kind, params, eparams, asset, env, check_mode, context, econtext,
                   calls, files, output, prev_ok, probe>>

EnvNext ==
    \/ EnvBegin
    \/ EnvGetContext
    \/ GetOrgId
    \/ GetEnvClientSecret
    \/ EnvCreate
    \/ EnvRequery
    \/ EnvDelete
    \/ EnvFinish

Next == AssetNext \/ EnvNext

Spec == Init /\ [][Next]_vars

\* A run goes on to its exit_json or fail_json, and the operator runs the module
\* again after every run.
FairSpec == Init /\ [][Next]_vars /\ WF_vars(Next)

\* ------------------------------------------- functions evaluated on their own

\* Identifiers a near match may carry.
OtherGroupId == "g2"
OtherVersion == "2.0.0"
\* The statuses of the errors array: not found, and two others.
Statuses == {404, 500, 403}

\* The errors arrays and the lists of assets a query response may hold.
ErrorArrays ==
    {<<>>} \cup {<<[status |-> st]>> : st \in Statuses} \cup
    {<<[status |-> 404], [status |-> 500]>>, <<[status |-> 500], [status |-> 404]>>}
Items ==
    [groupId : {GroupId, OtherGroupId}, assetId : {AssetId, OtherAssetId},
     version : {AssetVersion, OtherVersion}, type : AssetTypes]
AssetLists == {<<>>} \cup {<<it>> : it \in Items}
Responses == [errors : ErrorArrays, assets : AssetLists]

\* look_asset_on_exchange on every response, for every declared type.
LookupProbes ==
    {[fn |-> "look_asset_on_exchange",
      arg |-> [p |-> [DefaultParams EXCEPT !.type = t], out |-> out],
      ret |-> None, returned |-> FALSE] : t \in AssetTypes, out \in Responses}

\* The exit codes and the outputs of the describe command: up to MaxChunks chunks
\* of text, a line break being a chunk of its own.
ExitCodes == {0, 1, 255}
Chunks == {"json", "\n", "Error: Environment not found", "Error: Unauthorized"}
Outputs == UNION {[1..n -> Chunks] : n \in 0..MaxChunks}

\* run_command's result; what json.loads makes of a document is the record of
\* the environment.
CommandResult(rc, out) ==
    IF ParsesAsJson(out)
    THEN [rc |-> rc, out |-> out, ID |-> "e1", ClientID |-> "c1"]
    ELSE DescribeError(rc, out)

\* get_environment on every exit code and output.
EnvironmentProbes ==
    {[fn |-> "get_environment", arg |-> CommandResult(rc, out),
      ret |-> None, returned |-> FALSE] : rc \in ExitCodes, out \in Outputs}

\* The types that take the deploy:deploy-file path, and the files tried on it:
\* no extension, a hidden file, upper case, two extensions.
DeployFileTypes == {"example", "template", "connector", "extension", "policy"}
DeployFilePaths ==
    {JarPath, ZipPath, TxtPath, <<"a">>, JarExt, <<"a", ".", "J", "A", "R">>,
     ZipPath \o JarExt, JarPath \o ZipExt}

\* The deploy:deploy-file branch of upload_exchange_asset on every type and file.
UploadProbes ==
    {[fn |-> "upload_exchange_asset",
      arg |-> [DefaultParams EXCEPT !.state = "present", !.type = t, !.file_path = f],
      ret |-> None, returned |-> FALSE] : t \in DeployFileTypes, f \in DeployFilePaths}

FnInit ==
    /\ \/ probe \in LookupProbes
       \/ probe \in EnvironmentProbes
       \/ probe \in UploadProbes
    /\ kind = "fn"
    /\ params = DefaultParams
    /\ asset = AbsentAsset
    /\ eparams = DefaultEParams
    /\ env = AbsentEnv
    /\ pc = "idle"
    /\ check_mode = FALSE
    /\ context = InitialContext
    /\ econtext = InitialEContext
    /\ todo = <<>>
    /\ calls = <<>>
    /\ files = {}
    /\ output = NoOutput
    /\ result = InitialResult
    /\ prev_ok = FALSE

\* The function returns (or the run ends inside it).
Return(fn, value) ==
    /\ probe.fn = fn
    /\ ~probe.returned
    /\ probe' = [probe EXCEPT !.ret = value, !.returned = TRUE]
    /\ UNCHANGED <<kind, params, eparams, asset, env, pc, check_mode, context, econtext,
                   todo, calls, files, output, result, prev_ok>>

ApplyLookAssetOnExchange ==
    Return("look_asset_on_exchange", LookAssetOnExchange(probe.arg.p, probe.arg.out))

ApplyGetEnvironment ==
    Return("get_environment", GetEnvironment(probe.arg))

\* upload_exchange_asset: the extension it reads, the classifier it picks, and the
\* calls it makes.
ApplyUploadExchangeAsset ==
    Return("upload_exchange_asset",
           [file_extension |-> SplitExt(probe.arg.file_path),
            classifier |-> Classifier(probe.arg.type, SplitExt(probe.arg.file_path)),
            steps |-> UploadSteps(probe.arg)])

FnNext ==
    \/ ApplyLookAssetOnExchange
    \/ ApplyGetEnvironment
    \/ ApplyUploadExchangeAsset

FnSpec == FnInit /\ [][FnNext]_vars

\* ------------------------------------------------------------- properties

\* The calls that change the platform.
MutatingOps ==
    {"upload", "mvn_deploy", "mvn_deploy_file", "set_asset_name", "modify",
     "undeprecate", "deprecate", "delete", "create"}
CreateOps == {"upload", "mvn_deploy", "mvn_deploy_file"}

Mutating(cs) == SelectSeq(cs, LAMBDA c : c.op \in MutatingOps)
OpsOf(cs) == [i \in 1..Len(cs) |-> cs[i].op]

\* The current run is over and ended in exit_json outside check mode.
Succeeded == pc = "done" /\ ~result.failed /\ ~check_mode

\* C1: idempotence.  A run that follows a successful run with the same parameters
\* issues no mutating call and, when it ends in exit_json, reports changed=false.
C1_Idempotent ==
    prev_ok =>
        /\ Mutating(calls) = <<>>
        /\ (pc = "done" /\ ~result.failed => result.changed = FALSE)

\* get_context has returned and the platform is as the run found it.
AssetContextReturned ==
    /\ kind = "asset"
    /\ \/ pc = "exec" /\ Mutating(calls) = <<>>
       \/ pc = "done" /\ context.do_nothing
EnvContextReturned ==
    /\ kind = "env"
    /\ \/ pc = "exec" /\ Mutating(calls) = <<>>
       \/ pc = "done" /\ econtext.do_nothing

\* The observed resource satisfies every aspect of the desired state: existence,
\* the deprecated sub-state, and every declared attribute.
AssetSatisfied ==
    IF params.state = "absent"
    THEN ~context.exists
    ELSE /\ context.exists
         /\ context.deprecated = (params.state = "deprecated")
         /\ ~context.exchange_must_update
EnvSatisfied ==
    IF eparams.state = "absent"
    THEN ~env.exists
    ELSE env.exists /\ env.type = eparams.type

\* C2 as claimed: do_nothing is true iff the observed resource satisfies every
\* aspect of the desired state (target present or deprecated), or the resource does
\* not exist (target absent).
C2_DoNothingIffSatisfied ==
    /\ AssetContextReturned => (context.do_nothing <=> AssetSatisfied)
    /\ EnvContextReturned => (econtext.do_nothing <=> EnvSatisfied)

\* C2 as amended: do_nothing is true iff target absent finds nothing; or an asset
\* with target present is found, needs no metadata update and is not deprecated; or
\* an asset with target deprecated is found and deprecated, whatever its metadata;
\* or an environment with target present is found, whatever its type.
C2_DoNothingIffDecided ==
    /\ AssetContextReturned =>
        (context.do_nothing <=>
            \/ params.state = "absent" /\ ~context.exists
            \/ /\ params.state = "present"
               /\ context.exists
               /\ ~context.exchange_must_update
               /\ ~context.deprecated
            \/ params.state = "deprecated" /\ context.exists /\ context.deprecated)
    /\ EnvContextReturned =>
        (econtext.do_nothing <=>
            \/ eparams.state = "absent" /\ ~env.exists
            \/ eparams.state = "present" /\ env.exists)

\* A deprecated asset whose metadata differs, with target deprecated: nothing to do.
C2_Witness ==
    /\ AssetContextReturned
    /\ params.state = "deprecated"
    /\ context.do_nothing
    /\ context.exchange_must_update
    /\ asset.description # params.description

\* C3: the asset decision table.  Target absent: do_nothing = not exists.  Target
\* present, exists: do_nothing = (must_update is false and deprecated is false).
\* Target deprecated, exists: do_nothing = deprecated.  Target present or
\* deprecated, not exists: do_nothing = false.
C3_AssetDecisionTable ==
    AssetContextReturned =>
        /\ params.state = "absent" => context.do_nothing = ~context.exists
        /\ params.state = "present" /\ context.exists =>
               context.do_nothing =
                   (context.exchange_must_update = FALSE /\ context.deprecated = FALSE)
        /\ params.state = "deprecated" /\ context.exists =>
               context.do_nothing = context.deprecated
        /\ params.state \in {"present", "deprecated"} /\ ~context.exists =>
               context.do_nothing = FALSE

\* Target present on a deprecated asset whose metadata is up to date: something to do.
C3_Witness ==
    /\ AssetContextReturned
    /\ params.state = "present"
    /\ context.exists
    /\ context.deprecated
    /\ ~context.exchange_must_update
    /\ ~context.do_nothing

\* C4: the environment decision table.  Target present: do_nothing is true when the
\* describe call found the environment, whatever its type, and false when it did
\* not; target absent: do_nothing = not found.  No run with target present issues a
\* mutating call against an environment it found.
C4_EnvDecisionTable ==
    /\ EnvContextReturned =>
        econtext.do_nothing =
            (IF eparams.state = "present" THEN econtext.id # None ELSE econtext.id = None)
    /\ kind = "env" /\ eparams.state = "present" /\ econtext.id # None =>
        /\ Mutating(calls) = <<>>
        /\ pc # "exec"
        /\ (Succeeded => econtext.do_nothing /\ ~result.changed)

\* Target present on an environment of another type: nothing to do.
C4_Witness ==
    /\ kind = "env"
    /\ Succeeded
    /\ eparams.state = "present"
    /\ env.exists
    /\ env.type # eparams.type
    /\ econtext.do_nothing
    /\ OpsOf(calls) = <<"describe", "org_lookup", "secret_fetch">>

\* C5: whenever the plan has do_nothing = true the run issues no mutating call,
\* writes no file, and exits with changed=false and msg 'No action taken'.
C5_DoNothingNoCalls ==
    (context.do_nothing \/ econtext.do_nothing) =>
        /\ pc = "done"
        /\ Mutating(calls) = <<>>
        /\ files = {}
        /\ ~result.failed
        /\ result.changed = FALSE
        /\ result.msg = "No action taken"

\* An active asset with nothing to update, target present.
C5_Witness ==
    /\ kind = "asset"
    /\ pc = "done"
    /\ params.state = "present"
    /\ context.do_nothing
    /\ asset.exists
    /\ ~asset.deprecated
    /\ OpsOf(calls) = <<"query", "analyze">>

\* The place of a call in the fixed order: create, metadata update, deprecate.
Rank(op) ==
    IF op \in CreateOps THEN 1
    ELSE IF op \in {"set_asset_name", "modify"} THEN 2
    ELSE IF op = "deprecate" THEN 3
    ELSE 0

\* C6: in every asset run the calls create, metadata update and deprecate occur
\* in that order, and with target deprecated the deprecate call is the last
\* mutating call of the run.
C6_FixedOrder ==
    kind = "asset" =>
        /\ \A i, j \in 1..Len(calls) :
               (i < j /\ Rank(calls[i].op) > 0 /\ Rank(calls[j].op) > 0)
                   => Rank(calls[i].op) <= Rank(calls[j].op)
        /\ \A i \in 1..Len(calls) : calls[i].op = "deprecate" => i = Len(calls)
        /\ (Succeeded /\ params.state = "deprecated" /\ ~context.do_nothing)
               => calls[Len(calls)].op = "deprecate"

\* Target deprecated on no asset: create, then metadata update, then deprecate.
C6_Witness ==
    /\ kind = "asset"
    /\ Succeeded
    /\ OpsOf(Mutating(calls)) = <<"mvn_deploy_file", "set_asset_name", "modify", "deprecate">>

\* C7: target present on an asset that exists and is deprecated issues exactly one
\* undeprecate call, then a metadata update only if must_update is set, no other
\* mutating call, and reports changed=true.
C7_Undeprecate ==
    (/\ kind = "asset"
     /\ Succeeded
     /\ params.state = "present"
     /\ context.exists
     /\ context.deprecated)
    => /\ OpsOf(Mutating(calls)) =
              <<"undeprecate">> \o
              (IF context.exchange_must_update THEN <<"modify">> ELSE <<>>)
       /\ result.changed

\* A deprecated asset whose metadata differs, with target present.
C7_Witness ==
    /\ kind = "asset"
    /\ Succeeded
    /\ params.state = "present"
    /\ context.deprecated
    /\ OpsOf(Mutating(calls)) = <<"undeprecate", "modify">>
    /\ ~asset.deprecated

\* C8: target present on no asset, type custom, oas or wsdl: one CLI upload, which
\* carries the file path only when file_path is set, then exactly one metadata
\* update although every must-update flag of the plan is false; changed=true.
C8_UploadThenModify ==
    (/\ kind = "asset"
     /\ Succeeded
     /\ params.state = "present"
     /\ params.type \in {"custom", "oas", "wsdl"}
     /\ ~context.exists)
    => /\ Mutating(calls) =
              <<Call("upload", params.file_path # NoPath), Call("modify", FALSE)>>
       /\ ~context.exchange_must_update
       /\ ~context.exchange_must_update_name
       /\ ~context.exchange_must_update_description
       /\ ~context.exchange_must_update_icon
       /\ ~context.exchange_must_update_tags
       /\ result.changed

\* Type custom with no file: a metadata-only upload.
C8_Witness ==
    /\ kind = "asset"
    /\ Succeeded
    /\ params.state = "present"
    /\ params.type = "custom"
    /\ params.file_path = NoPath
    /\ Mutating(calls) = <<Call("upload", FALSE), Call("modify", FALSE)>>
    /\ result.changed

\* C9: target absent on a resource the lookup found (an asset, active or
\* deprecated, or an environment): exactly one delete call, no other mutating
\* call, changed=true.
C9_SingleDelete ==
    (/\ Succeeded
     /\ \/ kind = "asset" /\ params.state = "absent" /\ context.exists
        \/ kind = "env" /\ eparams.state = "absent" /\ econtext.id # None)
    => /\ OpsOf(Mutating(calls)) = <<"delete">>
       /\ result.changed
       /\ ~asset.exists
       /\ ~env.exists

\* A run that deleted an asset.
C9_Witness ==
    /\ kind = "asset"
    /\ Succeeded
    /\ params.state = "absent"
    /\ context.exists
    /\ OpsOf(calls) = <<"query", "delete">>
    /\ result.changed

\* C10: target present on no environment: after the first describe, one create,
\* one describe again, then (after the organization lookup) one client-secret
\* fetch, in that order; changed=true with id, client_id and client_secret set.
C10_CreateEnvironment ==
    (/\ kind = "env"
     /\ Succeeded
     /\ eparams.state = "present"
     /\ econtext.id = None)
    => /\ OpsOf(calls) = <<"describe", "create", "describe", "org_lookup", "secret_fetch">>
       /\ result.changed
       /\ result.id # None
       /\ result.client_id # None
       /\ result.client_secret # None
       /\ result.id = env.id
       /\ result.client_secret = env.client_secret

\* A sandbox environment created.
C10_Witness ==
    /\ kind = "env"
    /\ Succeeded
    /\ eparams.state = "present"
    /\ eparams.type = "sandbox"
    /\ econtext.id = None
    /\ result.changed
    /\ env.exists

\* The positions of the calls of one operation in the current run.
Positions(op) == {i \in 1..Len(calls) : calls[i].op = op}

\* C11: in every run of the environment module a client-secret fetch comes after a
\* describe call of the same run that returned an existing environment (the first
\* describe, or the one after the create); a run with target absent fetches no
\* secret; the client_secret of the outcome is the fetched value or None.
C11_SecretOnlyFetched ==
    kind = "env" =>
        /\ \A i \in Positions("secret_fetch") :
               /\ eparams.state = "present"
               /\ \E j \in Positions("describe") : j < i
               /\ IF econtext.id # None
                  THEN Positions("describe") = {1}
                  ELSE /\ output.id # None
                       /\ \E j \in Positions("describe") :
                              /\ j < i
                              /\ \E k \in Positions("create") : k < j
        /\ Cardinality(Positions("secret_fetch")) <= 1
        /\ eparams.state = "absent" => result.client_secret = None /\ output.client_secret = None
        /\ result.client_secret # None =>
               /\ Positions("secret_fetch") # {}
               /\ result.client_secret = env.client_secret
        /\ econtext.client_secret # None => econtext.client_secret = env.client_secret

\* The secret of an environment the run has just created.
C11_Witness ==
    /\ kind = "env"
    /\ Succeeded
    /\ OpsOf(calls) = <<"describe", "create", "describe", "org_lookup", "secret_fetch">>
    /\ result.client_secret = "s1"
    /\ econtext.id = None
    /\ output.id = "e1"

\* C12: the classification of the asset lookup.  For every query response,
\* look_asset_on_exchange ends the run in failure iff the response carries an
\* error whose status is not 404; it returns not-found when the error status is
\* 404 or when the returned record differs from the parameters in group id, asset
\* id, version or type; it returns found only when there is no error and all four
\* match.
C12_LookupClassification ==
    (probe.fn = "look_asset_on_exchange" /\ probe.returned) =>
        LET p == probe.arg.p
            out == probe.arg.out
            error == out.errors # <<>>
            fatal == probe.ret \in {Fail, IndexError}
            record == out.assets # <<>>
            matches ==
                /\ record
                /\ out.assets[1].groupId = p.group_id
                /\ out.assets[1].assetId = p.asset_id
                /\ out.assets[1].version = p.asset_version
                /\ out.assets[1].type = p.type
        IN  /\ fatal <=> (error /\ out.errors[1].status # 404)
            /\ (error /\ out.errors[1].status = 404) => probe.ret = None
            /\ (~error /\ record /\ ~matches) => probe.ret = None
            /\ (~fatal /\ probe.ret # None) => (~error /\ matches /\ probe.ret = p.asset_id)

\* The output is the known message, line breaks aside.
KnownMessage(out) == RemoveNewlines(out) = ErrorMessage

ClassifierTable ==
    {<<"connector", ZipExt, "studio-plugin">>,
     <<"extension", JarExt, "mule-plugin">>,
     <<"policy", JarExt, "mule-policy">>,
     <<"example", JarExt, "mule-application-example">>,
     <<"template", JarExt, "mule-application-template">>}

\* The steps of a sequence, as a set.
StepsOf(steps) == {steps[i] : i \in 1..Len(steps)}

\* C14: on the deploy-file path the classifier is a function of (declared type,
\* file extension): the five pairs of the table give their classifier and the
\* build tool is invoked; every other pair ends in the failure of a configuration
\* error and the build tool is not invoked.
C14_ClassifierTable ==
    (probe.fn = "upload_exchange_asset" /\ probe.returned) =>
        LET type == probe.arg.type
            ext == probe.ret.file_extension
            listed == {row \in ClassifierTable : row[1] = type /\ row[2] = ext}
        IN  /\ Cardinality(listed) <= 1
            /\ \A row \in listed :
                   /\ probe.ret.classifier = row[3]
                   /\ probe.ret.steps = <<"settings_xml", "mvn_deploy_file", "set_asset_name", "modify">>
            /\ listed = {} =>
                   /\ probe.ret.classifier = None
                   /\ probe.ret.steps[Len(probe.ret.steps)] = "fail_extension"
                   /\ StepsOf(probe.ret.steps) \cap {"mvn_deploy_file", "mvn_deploy"} = {}

\* A connector in a .jar file: no classifier, the build tool is not invoked.
C14_Witness ==
    /\ probe.fn = "upload_exchange_asset"
    /\ probe.returned
    /\ probe.arg.type = "connector"
    /\ probe.arg.file_path = JarPath
    /\ probe.ret.classifier = None
    /\ probe.ret.steps = <<"settings_xml", "fail_extension">>

\* The messages of the configuration errors: the two validations of run_module and
\* the two fail_json of upload_exchange_asset.
ConfigurationErrors ==
    {"asset type template or example requires a project directory to build it",
     "[run_module] asset type oas, wsdl, connector, extension or policy requires a file path to upload it",
     "fail_sources", "fail_extension"}

\* The parameters are in error for a run that has to create the asset: an example
\* or template with neither sources nor a file, or a file whose extension the
\* declared type does not take.
Misconfigured(p) ==
    \/ /\ p.type \in {"example", "template"}
       /\ p.file_path = NoPath
       /\ p.maven.sources = None
    \/ /\ p.type \in DeployFileTypes
       /\ p.file_path # NoPath
       /\ Classifier(p.type, SplitExt(p.file_path)) = None

\* C15: every configuration error of the asset module ends the run in a reported
\* failure with no partial action: the run has issued no mutating call to the
\* platform or the build tool and has written neither settings.xml nor the pom.
C15_NoPartialAction ==
    kind = "asset" =>
        /\ (pc = "done" /\ result.failed /\ result.msg \in ConfigurationErrors) =>
               /\ Mutating(calls) = <<>>
               /\ files = {}
        /\ (/\ pc = "done"
            /\ ~check_mode
            /\ params.state \in {"present", "deprecated"}
            /\ Misconfigured(params)
            /\ ~asset.exists) => result.failed

\* C16: an example or template with target present and an explicit file_path does
\* not need the maven option: given or not, the run is not refused for the lack
\* of it, and when the asset does not exist the run creates it with
\* deploy:deploy-file followed by the set-name call.
C16_MavenNotRequired ==
    (/\ kind = "asset"
     /\ pc = "done"
     /\ ~check_mode
     /\ params.state = "present"
     /\ params.type \in {"example", "template"}
     /\ params.file_path # NoPath)
    => /\ result.msg # "asset type template or example requires a project directory to build it"
       /\ (~result.failed /\ ~context.exists) =>
              /\ Len(Mutating(calls)) >= 2
              /\ OpsOf(SubSeq(Mutating(calls), 1, 2)) = <<"mvn_deploy_file", "set_asset_name">>

\* The failures that come from outside the run: a missing binary, a call the
\* platform, the build tool or the file system refused.
ExternalFailures ==
    {"binary not present on host", "anypoint-cli binary not present on host",
     "[look_asset_on_exchange] Error looking for asset on exchange", IndexError,
     "analyze_asset", "describe", "KeyError", "org_lookup", "secret_fetch", "create",
     "settings_xml", "modify_pom"} \cup MutatingOps

\* The run that has ended met no outside failure and was not in check mode.
Calm == pc = "done" => (~check_mode /\ ~(result.failed /\ result.msg \in ExternalFailures))

\* No call is tried again within a run, and a failure ends the run without
\* changed=true.
NoRetry ==
    /\ \A op \in MutatingOps : Cardinality(Positions(op)) <= 1
    /\ result.failed => (pc = "done" /\ ~result.changed)

\* C17: recovery by re-run.  No run tries a failed call again: each mutating call
\* is issued at most once per run and the first failure ends the run without
\* changed=true.  And for every parameters, when the operator runs the module
\* again after every run and the calls succeed from some point on, some run
\* reports success and from then on every run reports changed=false.
C17_RecoveryByRerun ==
    /\ []NoRetry
    /\ (<>[]Calm) => <>(Succeeded /\ [](pc = "done" => ~result.failed /\ ~result.changed))

\* The platform holds the asset the parameters describe: the composite
\* identifier with the declared type.
AssetThere == asset.exists /\ asset.type = params.type

\* C18: convergence to the target lifecycle.  After every run that ends in success
\* outside check mode the platform matches the target: target present leaves the
\* asset existing and not deprecated, target deprecated leaves it existing and
\* deprecated, target absent leaves the asset or the environment non-existent,
\* and target present leaves the environment existing.
C18_Convergence ==
    Succeeded =>
        /\ kind = "asset" =>
               /\ params.state = "present" => (AssetThere /\ ~asset.deprecated)
               /\ params.state = "deprecated" => (AssetThere /\ asset.deprecated)
               /\ params.state = "absent" => ~AssetThere
        /\ kind = "env" =>
               /\ eparams.state = "present" => env.exists
               /\ eparams.state = "absent" => ~env.exists

\* Target deprecated on no asset: the run leaves a deprecated asset, and the next
\* run finds nothing to do.
C18_Witness ==
    /\ kind = "asset"
    /\ Succeeded
    /\ prev_ok
    /\ params.state = "deprecated"
    /\ context.do_nothing
    /\ asset.exists
    /\ asset.deprecated
    /\ asset.description = None
    /\ params.description = "d1"

\* C19 as claimed: a run in check mode exits with changed=false and msg 'No action
\* taken', having issued no read call and no mutating call and written no file,
\* for every parameters and every platform state.
C19_CheckModeExits ==
    check_mode =>
        /\ pc = "done"
        /\ ~result.failed
        /\ result.changed = FALSE
        /\ result.msg = "No action taken"
        /\ calls = <<>>
        /\ files = {}

\* C19 as amended: a run in check mode issues no call and writes no file and ends
\* with changed=false: in exit_json with the untouched result and msg 'No action
\* taken' when the binaries are on the host, in fail_json for the binary that is
\* missing otherwise.
C19_CheckModeNoCalls ==
    check_mode =>
        /\ pc = "done"
        /\ calls = <<>>
        /\ files = {}
        /\ result.changed = FALSE
        /\ IF result.failed
           THEN result.msg \in {"binary not present on host",
                                "anypoint-cli binary not present on host"}
           ELSE result = InitialResult

\* Check mode with target present on no asset, where a run would create it.
C19_Witness ==
    /\ kind = "asset"
    /\ check_mode
    /\ pc = "done"
    /\ ~result.failed
    /\ result.msg = "No action taken"
    /\ params.state = "present"
    /\ params.type = "custom"
    /\ ~asset.exists
    /\ calls = <<>>

====
